---- MODULE Spec2Model ----
(***************************************************************************)
(* Model of the Appveyor Python client (appveyor_client/client.py).        *)
(*                                                                         *)
(* Three specifications share this module:                                 *)
(*   ParseSpec    the response interpreter _parse_response_contents as a   *)
(*                pure function, applied to every response of a bounded    *)
(*                set of (status code, body text) pairs;                   *)
(*   Spec         one client: construction, the resource-group methods and *)
(*                the HTTP exchange each of them performs;                 *)
(*   RequestSpec  the dispatcher _request of a constructed client, called  *)
(*                with every descriptor, body and json of a bounded set.   *)
(***************************************************************************)
EXTENDS Integers, Sequences, FiniteSets, TLC

VARIABLES
    response,      \* the response handed to the interpreter
    parsed,        \* the outcome of _parse_response_contents on it
    client,        \* "none" (no object), "constructing", "ready"
    _endpoint,     \* AppveyorClient._endpoint
    headers,       \* AppveyorClient._session.headers
    pc,            \* "idle" | "waiting" (request in flight) | "returned"
    call,          \* the method call in progress / just finished
    inflight,      \* the HTTP request awaiting its response
    requests_sent, \* number of HTTP requests sent so far
    outcome,       \* what the call returned or raised
    defaults       \* the shared default environment_variables dicts

vars == <<response, parsed, client, _endpoint, headers, pc, call, inflight,
          requests_sent, outcome, defaults>>

parseVars == <<response, parsed>>
clientVars == <<client, _endpoint, headers, pc, call, inflight,
                requests_sent, outcome, defaults>>

(***************************************************************************)
(* Bounds.                                                                 *)
(***************************************************************************)
MaxBodyLen == 4     \* longest response body text of ParseSpec
MaxRequests == 3    \* HTTP requests one behaviour of Spec may send

(***************************************************************************)
(* Python values: tagged records, so that values of different Python       *)
(* types can be compared.  A dict is its sequence of <<key, value>> pairs  *)
(* in insertion order.                                                     *)
(***************************************************************************)
PyNone == [t |-> "None", v |-> 0]
PyStr(s) == [t |-> "str", v |-> s]
PyInt(n) == [t |-> "int", v |-> n]
PyBool(b) == [t |-> "bool", v |-> b]
PyList(items) == [t |-> "list", v |-> items]
PyDict(pairs) == [t |-> "dict", v |-> pairs]

\* Python truth value testing, as used by `if x:` and `x or y`.
Truthy(x) ==
    CASE x.t = "None" -> FALSE
      [] x.t = "str"  -> x.v # ""
      [] x.t = "int"  -> x.v # 0
      [] x.t = "bool" -> x.v
      [] x.t = "list" -> Len(x.v) > 0
      [] x.t = "dict" -> Len(x.v) > 0

HasKey(d, k) == \E i \in 1..Len(d.v) : d.v[i][1] = k

GetItem(d, k) == d.v[CHOOSE i \in 1..Len(d.v) : d.v[i][1] = k][2]

\* d[k] = x : replaces the value of an existing key, appends a new one.
SetItem(d, k, x) ==
    IF HasKey(d, k)
    THEN PyDict([i \in 1..Len(d.v) |->
                    IF d.v[i][1] = k THEN <<k, x>> ELSE d.v[i]])
    ELSE PyDict(Append(d.v, <<k, x>>))

Keys(d) == {d.v[i][1] : i \in 1..Len(d.v)}

(***************************************************************************)
(* Response body text: a sequence of characters over a small alphabet that *)
(* has whitespace, a digit, the array punctuation and a character no JSON  *)
(* document contains.                                                      *)
(***************************************************************************)
Chars == {" ", "1", "[", "]", ",", "x"}

RECURSIVE TextsOfLen(_)
TextsOfLen(n) ==
    IF n = 0 THEN {<<>>}
    ELSE {Append(s, c) : s \in TextsOfLen(n - 1), c \in Chars}

Texts(maxLen) == UNION {TextsOfLen(n) : n \in 0..maxLen}

IsSpace(c) == c = " "

\* str.strip(): the text without leading and trailing whitespace.
RECURSIVE LStrip(_)
LStrip(s) ==
    IF s # <<>> /\ IsSpace(Head(s)) THEN LStrip(Tail(s)) ELSE s

RECURSIVE RStrip(_)
RStrip(s) ==
    IF s # <<>> /\ IsSpace(s[Len(s)])
    THEN RStrip(SubSeq(s, 1, Len(s) - 1))
    ELSE s

Strip(s) == RStrip(LStrip(s))

(***************************************************************************)
(* response.json(): a recursive-descent JSON decoder for documents made of *)
(* numbers and arrays.  A parse result is [ok, val, pos]: pos is the index *)
(* of the first character not consumed.                                    *)
(***************************************************************************)
ParseFail == [ok |-> FALSE, val |-> PyNone, pos |-> 0]

\* Project objects of a GET /api/projects listing.  A whole JSON object
\* literal is one character of the body text and decodes to its dict.
JsonObjects ==
    ("{P1}" :> PyDict(<< <<"repositoryName", PyStr("Ann/Repo")>>,
                         <<"accountName", PyStr("ann")>>,
                         <<"slug", PyStr("repo")>> >>)) @@
    ("{P2}" :> PyDict(<< <<"repositoryName", PyStr("bob/lib")>>,
                         <<"accountName", PyStr("bob")>>,
                         <<"slug", PyStr("lib-x")>> >>)) @@
    ("{P3}" :> PyDict(<< <<"repositoryName", PyStr("ann/repo")>>,
                         <<"accountName", PyStr("ann2")>>,
                         <<"slug", PyStr("repo-2")>> >>))

RECURSIVE SkipSpace(_, _)
SkipSpace(s, i) ==
    IF i <= Len(s) /\ IsSpace(s[i]) THEN SkipSpace(s, i + 1) ELSE i

RECURSIVE ParseNumber(_, _, _)
ParseNumber(s, i, acc) ==
    IF i <= Len(s) /\ s[i] = "1"
    THEN ParseNumber(s, i + 1, 10 * acc + 1)
    ELSE [ok |-> TRUE, val |-> PyInt(acc), pos |-> i]

RECURSIVE ParseValue(_, _)
RECURSIVE ParseElements(_, _, _)

\* A value starting at position i (whitespace already skipped).
ParseValue(s, i) ==
    IF i > Len(s) THEN ParseFail
    ELSE IF s[i] = "1" THEN ParseNumber(s, i, 0)
    ELSE IF s[i] = "["
         THEN LET j == SkipSpace(s, i + 1)
              IN IF j <= Len(s) /\ s[j] = "]"
                 THEN [ok |-> TRUE, val |-> PyList(<<>>), pos |-> j + 1]
                 ELSE ParseElements(s, j, <<>>)
    ELSE IF s[i] \in DOMAIN JsonObjects
         THEN [ok |-> TRUE, val |-> JsonObjects[s[i]], pos |-> i + 1]
    ELSE ParseFail

\* The elements of a non-empty array, the next one starting at i.
ParseElements(s, i, acc) ==
    LET r == ParseValue(s, i)
    IN IF ~r.ok THEN ParseFail
       ELSE LET j == SkipSpace(s, r.pos)
            IN IF j > Len(s) THEN ParseFail
               ELSE IF s[j] = "]"
                    THEN [ok |-> TRUE, val |-> PyList(Append(acc, r.val)),
                          pos |-> j + 1]
               ELSE IF s[j] = ","
                    THEN ParseElements(s, SkipSpace(s, j + 1),
                                       Append(acc, r.val))
               ELSE ParseFail

\* json.loads(text): [ok |-> TRUE, val |-> V] or a decode failure.
JsonDecode(s) ==
    LET r == ParseValue(s, SkipSpace(s, 1))
    IN IF r.ok /\ SkipSpace(s, r.pos) > Len(s)
       THEN [ok |-> TRUE, val |-> r.val]
       ELSE [ok |-> FALSE, val |-> PyNone]

(***************************************************************************)
(* Outcomes of a call.                                                     *)
(***************************************************************************)
NoOutcome == [kind |-> "none", exc |-> "", value |-> PyNone]
Return(x) == [kind |-> "return", exc |-> "", value |-> x]
Raise(e, x) == [kind |-> "raise", exc |-> e, value |-> x]

\* The text produced by textwrap.dedent(...)[1:] in the except branch.
GenericErrorMsg ==
    "Unexpected error\n    Possible reasons are:\n     - Communication with Appveyor has failed.\n     - Insufficient permissions.\n     - Invalid contents returned.\n"

StatusCodes == {200, 201, 204, 401, 404, 500}

Responses(bodies) == [status_code : StatusCodes, text : bodies]

(***************************************************************************)
(* AppveyorClient._parse_response_contents                                 *)
(*                                                                         *)
(* The try block decodes the body only when the status is 200, so only a   *)
(* 200 response can enter the except branch.  There error_msg is assigned  *)
(* only when the stripped text is empty; with text left, building the      *)
(* contents dict reads the unassigned local and UnboundLocalError leaves   *)
(* the function.                                                           *)
(***************************************************************************)
\* Lines 72-86: the except branch, entered when response.json() raises.
except_branch(resp, status_code) ==
    LET error == Strip(resp.text)
    IN IF error = <<>>
       THEN Raise("AppveyorError",
                  PyDict(<< <<"status_code", PyInt(status_code)>>,
                            <<"error", PyStr(GenericErrorMsg)>> >>))
       ELSE Raise("UnboundLocalError", PyStr("error_msg"))

\* Mutants of status_branch: a 200 that returns the initial empty dict, a
\* 204 that is not recognised, any 2xx taken as success with no content,
\* and an error raised without its status code.
status_branch_no_decode(status_code, contents) ==
    IF status_code = 200 THEN Return(PyDict(<<>>))
    ELSE IF status_code = 204 THEN Return(PyNone)
    ELSE Raise("AppveyorError",
               SetItem(PyDict(<<>>), "status_code", PyInt(status_code)))

status_branch_no_204(status_code, contents) ==
    IF status_code = 200 THEN Return(contents)
    ELSE Raise("AppveyorError",
               SetItem(contents, "status_code", PyInt(status_code)))

status_branch_any_2xx(status_code, contents) ==
    IF status_code = 200 THEN Return(contents)
    ELSE IF status_code \in 201..299 THEN Return(PyNone)
    ELSE Raise("AppveyorError",
               SetItem(contents, "status_code", PyInt(status_code)))

\* Lines 88-94: the branches on the status code after the try statement.
status_branch(status_code, contents) ==
    IF status_code = 200 THEN Return(contents)
    ELSE IF status_code = 204 THEN Return(PyNone)
    ELSE Raise("AppveyorError",
               SetItem(contents, "status_code", PyInt(status_code)))

_parse_response_contents(resp) ==
    LET status_code == resp.status_code
        decoded == JsonDecode(resp.text)
    IN IF status_code = 200 /\ ~decoded.ok
       THEN except_branch(resp, status_code)
       ELSE status_branch(status_code,
                          IF status_code = 200 THEN decoded.val
                          ELSE PyDict(<<>>))

(***************************************************************************)
(* ParseSpec: the interpreter applied to each response of a bounded set.   *)
(***************************************************************************)
NoResponse == [status_code |-> 0, text |-> <<>>]
NoCall == [op |-> "", args |-> <<>>, sent_before |-> 0]
NoRequest == [verb |-> "", url |-> "", data |-> PyNone, json |-> PyNone,
              headers |-> PyDict(<<>>)]

\* The default values of the environment_variables parameters, evaluated
\* once when the methods are defined (lines 811 and 1044).
InitialDefaults ==
    [builds_start |-> PyDict(<<>>), deployments_start |-> PyDict(<<>>)]

ClientIdle ==
    /\ defaults = InitialDefaults
    /\ client = "none"
    /\ _endpoint = ""
    /\ headers = PyDict(<<>>)
    /\ pc = "idle"
    /\ call = NoCall
    /\ inflight = NoRequest
    /\ requests_sent = 0
    /\ outcome = NoOutcome

ParseInit ==
    /\ response \in Responses(Texts(MaxBodyLen))
    /\ parsed = NoOutcome
    /\ ClientIdle

Parse ==
    /\ parsed = NoOutcome
    /\ parsed' = _parse_response_contents(response)
    /\ UNCHANGED response
    /\ UNCHANGED clientVars

ParseNext == Parse

ParseSpec == ParseInit /\ [][ParseNext]_vars

(***************************************************************************)
(* Claims about the response interpreter (checked under ParseSpec).        *)
(***************************************************************************)
Interpreted == parsed # NoOutcome

IsAppveyorError(o) == o.kind = "raise" /\ o.exc = "AppveyorError"

\* C1: a 200 response whose body decodes as JSON to V is interpreted as the
\* return of exactly V; nothing is raised.
C1_Ok200ReturnsDecodedValue ==
    (Interpreted /\ response.status_code = 200
                 /\ JsonDecode(response.text).ok)
        => parsed = Return(JsonDecode(response.text).val)

C1_Witness ==
    /\ response = [status_code |-> 200, text |-> <<"[", "1", "]", " ">>]
    /\ parsed = Return(PyList(<<PyInt(1)>>))

\* C2: a 204 response is interpreted as the return of None, whatever its
\* body text is.
C2_NoContentReturnsNone ==
    (Interpreted /\ response.status_code = 204) => parsed = Return(PyNone)

C2_Witness ==
    /\ response.status_code = 204
    /\ ~JsonDecode(response.text).ok
    /\ Strip(response.text) # <<>>
    /\ parsed = Return(PyNone)

\* C3: a response whose status is neither 200 nor 204 is never interpreted
\* as a return: AppveyorError is raised and its record carries exactly the
\* response's status code, for every body.
C3_OtherStatusRaisesWithCode ==
    (Interpreted /\ response.status_code \notin {200, 204})
        => /\ IsAppveyorError(parsed)
           /\ HasKey(parsed.value, "status_code")
           /\ GetItem(parsed.value, "status_code")
                  = PyInt(response.status_code)

C3_Witness ==
    /\ response.status_code = 201
    /\ JsonDecode(response.text).ok
    /\ IsAppveyorError(parsed)
    /\ GetItem(parsed.value, "status_code") = PyInt(201)

\* C4: for a status that is not 2xx/204 the AppveyorError carries a message:
\* the generic diagnostic when the trimmed body text is empty, the trimmed
\* body text otherwise.
C4_ErrorCarriesMessage ==
    (Interpreted /\ response.status_code \notin 200..299)
        => /\ IsAppveyorError(parsed)
           /\ HasKey(parsed.value, "error")
           /\ IF Strip(response.text) = <<>>
              THEN GetItem(parsed.value, "error") = PyStr(GenericErrorMsg)
              ELSE GetItem(parsed.value, "error")
                       = PyStr(Strip(response.text))

\* C5: a 200 response whose body does not decode raises AppveyorError with
\* both the status code and a message; no other exception escapes and no
\* value is returned.
C5_DecodeFailureIsAppveyorError ==
    (Interpreted /\ response.status_code = 200
                 /\ ~JsonDecode(response.text).ok)
        => /\ IsAppveyorError(parsed)
           /\ HasKey(parsed.value, "status_code")
           /\ HasKey(parsed.value, "error")

(***************************************************************************)
(* Text helpers of the client.                                             *)
(*                                                                         *)
(* A method descriptor ('GET /api/users/{user_id}') is a sequence of       *)
(* tokens: the verb, the space, path fragments and replacement fields.     *)
(* Joining the tokens gives the string.                                    *)
(***************************************************************************)
RECURSIVE Join(_)
Join(tokens) ==
    IF tokens = <<>> THEN "" ELSE Head(tokens) \o Join(Tail(tokens))

\* str(x) / '{}'.format(x) of a Python value used in a URL or a message.
Str(x) ==
    CASE x.t = "None" -> "None"
      [] x.t = "str"  -> x.v
      [] x.t = "int"  -> ToString(x.v)
      [] x.t = "bool" -> IF x.v THEN "True" ELSE "False"

\* template.format(**fields): every replacement field named in fields is
\* replaced by its value; other tokens are literal text.
RECURSIVE Format(_, _)
Format(tokens, fields) ==
    IF tokens = <<>> THEN <<>>
    ELSE <<IF Head(tokens) \in DOMAIN fields
           THEN Str(fields[Head(tokens)])
           ELSE Head(tokens)>> \o Format(Tail(tokens), fields)

\* method_url.split(' '): the token runs between the spaces.
RECURSIVE Split(_, _, _)
Split(tokens, cur, acc) ==
    IF tokens = <<>> THEN Append(acc, cur)
    ELSE IF Head(tokens) = " "
         THEN Split(Tail(tokens), <<>>, Append(acc, cur))
         ELSE Split(Tail(tokens), Append(cur, Head(tokens)), acc)

\* str.lower() on the verbs of the descriptors and on repository names.
Lower(s) ==
    CASE s = "GET" -> "get"
      [] s = "Ann/Repo" -> "ann/repo"
      [] s = "ANN/REPO" -> "ann/repo"
      [] s = "POST" -> "post"
      [] s = "PUT" -> "put"
      [] s = "DELETE" -> "delete"
      [] OTHER -> s

(***************************************************************************)
(* json.dumps: the JSON text of a Python value, with the default           *)
(* separators ', ' and ': '.                                               *)
(***************************************************************************)
RECURSIVE dumps(_)
RECURSIVE dumps_items(_)
RECURSIVE dumps_pairs(_)

dumps(x) ==
    CASE x.t = "None" -> "null"
      [] x.t = "str"  -> "\"" \o x.v \o "\""
      [] x.t = "int"  -> ToString(x.v)
      [] x.t = "bool" -> IF x.v THEN "true" ELSE "false"
      [] x.t = "list" -> "[" \o dumps_items(x.v) \o "]"
      [] x.t = "dict" -> "{" \o dumps_pairs(x.v) \o "}"

dumps_items(items) ==
    IF items = <<>> THEN ""
    ELSE dumps(Head(items)) \o
         (IF Len(items) > 1 THEN ", " ELSE "") \o dumps_items(Tail(items))

dumps_pairs(pairs) ==
    IF pairs = <<>> THEN ""
    ELSE "\"" \o Head(pairs)[1] \o "\": " \o dumps(Head(pairs)[2]) \o
         (IF Len(pairs) > 1 THEN ", " ELSE "") \o dumps_pairs(Tail(pairs))

\* str(list) of a list of strings, as in the provider error message.
RECURSIVE repr_items(_)
repr_items(items) ==
    IF items = <<>> THEN ""
    ELSE "'" \o Head(items) \o "'" \o
         (IF Len(items) > 1 THEN ", " ELSE "") \o repr_items(Tail(items))

repr_list(items) == "[" \o repr_items(items) \o "]"

(***************************************************************************)
(* The session and the dispatcher.                                         *)
(***************************************************************************)
\* AppveyorClient._HEADERS
_HEADERS ==
    PyDict(<< <<"Content-type", PyStr("application/json")>>,
              <<"User-Agent", PyStr("Appveyor Python Client")>> >>)

\* The headers of a fresh requests.Session().
SessionDefaultHeaders ==
    PyDict(<< <<"User-Agent", PyStr("python-requests")>>,
              <<"Accept", PyStr("*/*")>> >>)

\* dict.update(other)
RECURSIVE update(_, _)
update(d, pairs) ==
    IF pairs = <<>> THEN d
    ELSE update(SetItem(d, Head(pairs)[1], Head(pairs)[2]), Tail(pairs))

DefaultEndpoint == "https://ci.appveyor.com/"

\* AppveyorClient._make_url
_make_url(endpoint, url) == endpoint \o url

\* What the transport is asked to send.
HttpRequest(verb, full_url, data, json, hdrs) ==
    [verb |-> verb, url |-> full_url, data |-> data, json |-> json,
     headers |-> hdrs]

\* AppveyorClient._get / _post / _put / _delete, up to the session call.
_get(endpoint, hdrs, url, data, json) ==
    HttpRequest("GET", _make_url(endpoint, url), PyNone, PyNone, hdrs)

_post(endpoint, hdrs, url, data, json) ==
    HttpRequest("POST", _make_url(endpoint, url), data, json, hdrs)

_put(endpoint, hdrs, url, data, json) ==
    HttpRequest("PUT", _make_url(endpoint, url), data, json, hdrs)

\* Mutant of _delete: the body is passed on, as _post and _put do.
_delete_with_body(endpoint, hdrs, url, data, json) ==
    HttpRequest("DELETE", _make_url(endpoint, url), data, json, hdrs)

_delete(endpoint, hdrs, url, data, json) ==
    HttpRequest("DELETE", _make_url(endpoint, url), PyNone, PyNone, hdrs)

\* AppveyorClient._request, up to the session call: the request to send, or
\* the exception raised before anything is sent.
_request(endpoint, hdrs, method_url, body, json) ==
    LET parts == Split(method_url, <<>>, <<>>)
    IN IF Len(parts) # 2
       THEN [sends |-> FALSE, request |-> NoRequest,
             error |-> Raise("ValueError", PyStr("unpack"))]
       ELSE LET method == Join(parts[1])
                url == Join(parts[2])
                func == "_" \o Lower(method)
            IN CASE func = "_get" ->
                      [sends |-> TRUE, error |-> NoOutcome,
                       request |-> _get(endpoint, hdrs, url, body, json)]
                 [] func = "_post" ->
                      [sends |-> TRUE, error |-> NoOutcome,
                       request |-> _post(endpoint, hdrs, url, body, json)]
                 [] func = "_put" ->
                      [sends |-> TRUE, error |-> NoOutcome,
                       request |-> _put(endpoint, hdrs, url, body, json)]
                 [] func = "_delete" ->
                      [sends |-> TRUE, error |-> NoOutcome,
                       request |-> _delete(endpoint, hdrs, url, body, json)]
                 [] OTHER ->
                      [sends |-> FALSE, request |-> NoRequest,
                       error |-> Raise("AttributeError", PyStr(func))]

(***************************************************************************)
(* What a resource-group method does before it reaches the dispatcher:     *)
(* it either raises, or hands over a descriptor, a body and a json value.  *)
(***************************************************************************)
Dispatch(method_url, body, json) ==
    [raises |-> FALSE, error |-> NoOutcome, method_url |-> method_url,
     body |-> body, json |-> json]

Fails(exc, msg) ==
    [raises |-> TRUE, error |-> Raise(exc, PyStr(msg)), method_url |-> <<>>,
     body |-> PyNone, json |-> PyNone]

(***************************************************************************)
(* Users                                                                   *)
(***************************************************************************)
Users_get(user_id) ==
    LET method_url == <<"GET", " ", "/api/users">> \o
                      (IF Truthy(user_id) THEN <<"/", "{user_id}">>
                       ELSE <<>>)
    IN Dispatch(Format(method_url, [f \in {"{user_id}"} |-> user_id]),
                PyNone, PyNone)

\* Mutant of Users_add: a missing password is not rejected.
Users_add_no_check(full_name, email, role_id, password, generate_password) ==
    LET data == PyDict(<< <<"fullName", full_name>>,
                          <<"email", email>>,
                          <<"roleId", role_id>>,
                          <<"generatePassword", generate_password>> >>)
    IN Dispatch(<<"POST", " ", "/api/users">>,
                PyStr(dumps(IF ~Truthy(generate_password)
                            THEN SetItem(SetItem(data, "password", password),
                                         "confirmPassword", password)
                            ELSE data)),
                PyNone)

Users_add(full_name, email, role_id, password, generate_password) ==
    LET method_url == <<"POST", " ", "/api/users">>
        data == PyDict(<< <<"fullName", full_name>>,
                          <<"email", email>>,
                          <<"roleId", role_id>>,
                          <<"generatePassword", generate_password>> >>)
    IN IF ~Truthy(generate_password)
       THEN IF Truthy(password)
            THEN Dispatch(method_url,
                          PyStr(dumps(SetItem(SetItem(data, "password",
                                                      password),
                                              "confirmPassword", password))),
                          PyNone)
            ELSE Fails("AppveyorClientError",
                       "Must provide a password if generate is Fasle")
       ELSE Dispatch(method_url, PyStr(dumps(data)), PyNone)

Users_update(user) ==
    Dispatch(<<"PUT", " ", "/api/users">>, PyStr(dumps(user)), PyNone)

Users_delete(user_id) ==
    Dispatch(Format(<<"DELETE", " ", "/api/users/", "{user_id}">>,
                    [f \in {"{user_id}"} |-> user_id]),
             PyNone, PyNone)

(***************************************************************************)
(* Collaborators                                                           *)
(***************************************************************************)
Collaborators_get(user_id) ==
    LET method_url == <<"DELETE", " ", "/api/users">> \o
                      (IF Truthy(user_id) THEN <<"/", "{user_id}">>
                       ELSE <<>>)
    IN Dispatch(Format(method_url, [f \in {"{user_id}"} |-> user_id]),
                PyNone, PyNone)

Collaborators_add(email, role_id) ==
    Dispatch(<<"POST", " ", "/api/collaborators">>,
             PyStr(dumps(PyDict(<< <<"email", email>>,
                                   <<"roleId", role_id>> >>))),
             PyNone)

Collaborators_update(user_id, role_id) ==
    Dispatch(<<"PUT", " ", "/api/collaborators">>,
             PyStr(dumps(PyDict(<< <<"userId", user_id>>,
                                   <<"roleId", role_id>> >>))),
             PyNone)

Collaborators_delete(user_id) ==
    Dispatch(Format(<<"DELETE", " ", "/api/collaborators/", "{user_id}">>,
                    [f \in {"{user_id}"} |-> user_id]),
             PyNone, PyNone)

(***************************************************************************)
(* Roles.  get and delete_role never call format: the replacement field    *)
(* stays in the descriptor as written.                                     *)
(***************************************************************************)
Roles_get(role_id) ==
    Dispatch(<<"GET", " ", "/api/roles">> \o
             (IF Truthy(role_id) THEN <<"/", "{role_id}">> ELSE <<>>),
             PyNone, PyNone)

Roles_add_role(name) ==
    Dispatch(<<"POST", " ", "/api/roles">>,
             PyStr(dumps(PyDict(<< <<"name", name>> >>))), PyNone)

Roles_update_role(role) ==
    Dispatch(<<"PUT", " ", "/api/roles">>, PyStr(dumps(role)), PyNone)

Roles_delete_role(role_id) ==
    Dispatch(<<"DELETE", " ", "/api/roles/", "{role_id}">>, PyNone, PyNone)

(***************************************************************************)
(* Projects                                                                *)
(***************************************************************************)
ProjectFields(account_name, project_slug) ==
    ("{account_name}" :> account_name) @@ ("{project_slug}" :> project_slug)

ProjectPath ==
    <<"/api/projects/", "{account_name}", "/", "{project_slug}">>

Projects_get == Dispatch(<<"GET", " ", "/api/projects">>, PyNone, PyNone)

Projects_last_build(account_name, project_slug) ==
    Dispatch(Format(<<"GET", " ">> \o ProjectPath,
                    ProjectFields(account_name, project_slug)),
             PyNone, PyNone)

Projects_last_branch_build(account_name, project_slug, build_branch) ==
    Dispatch(Format(<<"GET", " ">> \o ProjectPath \o
                        <<"/branch/", "{build_branch}">>,
                    ProjectFields(account_name, project_slug) @@
                        ("{build_branch}" :> build_branch)),
             PyNone, PyNone)

Projects_build(account_name, project_slug, build_version) ==
    Dispatch(Format(<<"GET", " ">> \o ProjectPath \o
                        <<"/build/", "{build_version}">>,
                    ProjectFields(account_name, project_slug) @@
                        ("{build_version}" :> build_version)),
             PyNone, PyNone)

Projects_history(account_name, project_slug, records_per_page, start_build_id, branch) ==
    LET m0 == <<"GET", " ">> \o ProjectPath \o
              <<"/history?recordsNumber=", "{records_per_page}">>
        m1 == m0 \o (IF Truthy(start_build_id)
                     THEN <<"&startBuildId=", "{start_build_id}">>
                     ELSE <<"{start_build_id}">>)
        m2 == m1 \o (IF Truthy(branch) THEN <<"&branch=", "{branch}">>
                     ELSE <<"{branch}">>)
    IN Dispatch(Format(m2,
                       ProjectFields(account_name, project_slug) @@
                       ("{records_per_page}" :> records_per_page) @@
                       ("{start_build_id}" :>
                            IF Truthy(start_build_id) THEN start_build_id
                            ELSE PyStr("")) @@
                       ("{branch}" :>
                            IF Truthy(branch) THEN branch ELSE PyStr(""))),
                PyNone, PyNone)

Projects_deployments(account_name, project_slug) ==
    Dispatch(Format(<<"GET", " ">> \o ProjectPath \o <<"/deployments">>,
                    ProjectFields(account_name, project_slug)),
             PyNone, PyNone)

Projects_settings(account_name, project_slug) ==
    Dispatch(Format(<<"GET", " ">> \o ProjectPath \o <<"/settings/yaml">>,
                    ProjectFields(account_name, project_slug)),
             PyNone, PyNone)

providers ==
    <<"gitHub", "bitBucket", "vso", "gitLab", "kiln", "stash", "git",
      "mercurial", "subversion">>

\* Mutant of Projects_add: the provider is not validated.
Projects_add_unchecked(repository_provider, repository_name) ==
    Dispatch(<<"POST", " ", "/api/projects">>,
             PyStr(dumps(PyDict(
                 << <<"repositoryProvider", repository_provider>>,
                    <<"repositoryName", repository_name>> >>))),
             PyNone)

Projects_add(repository_provider, repository_name) ==
    IF ~(\E i \in 1..Len(providers) :
            PyStr(providers[i]) = repository_provider)
    THEN Fails("AppveyorClientError",
               "Invalid repository provider. Must be one of " \o
               repr_list(providers))
    ELSE Dispatch(<<"POST", " ", "/api/projects">>,
                  PyStr(dumps(PyDict(
                      << <<"repositoryProvider", repository_provider>>,
                         <<"repositoryName", repository_name>> >>))),
                  PyNone)

Projects_update(account_name, project_slug, project) ==
    Dispatch(Format(<<"PUT", " ">> \o ProjectPath \o
                        <<"/settings/build-number">>,
                    ProjectFields(account_name, project_slug)),
             PyStr(dumps(project)), PyNone)

Projects_update_settings(account_name, project_slug, settings) ==
    Dispatch(Format(<<"PUT", " ">> \o ProjectPath \o
                        <<"/settings/build-number">>,
                    ProjectFields(account_name, project_slug)),
             PyStr(dumps(settings)), PyNone)

Projects_update_build_number(account_name, project_slug, next_build_number) ==
    Dispatch(Format(<<"PUT", " ">> \o ProjectPath \o
                        <<"/settings/build-number">>,
                    ProjectFields(account_name, project_slug)),
             PyNone,
             PyDict(<< <<"nextBuildNumber", next_build_number>> >>))

Projects_delete_build_cache(account_name, project_slug) ==
    Dispatch(Format(<<"DELETE", " ">> \o ProjectPath \o <<"/buildcache">>,
                    ProjectFields(account_name, project_slug)),
             PyNone, PyNone)

Projects_delete(account_name, project_slug) ==
    Dispatch(Format(<<"DELETE", " ">> \o ProjectPath,
                    ProjectFields(account_name, project_slug)),
             PyNone, PyNone)

(***************************************************************************)
(* Builds                                                                  *)
(***************************************************************************)
BuildData(account_name, project_slug) ==
    PyDict(<< <<"accountName", account_name>>,
              <<"projectSlug", project_slug>> >>)

\* The tail of Builds.start (lines 836-840).
Builds_start_send(data, environment_variables) ==
    Dispatch(<<"POST", " ", "/api/builds">>,
             PyStr(dumps(IF Truthy(environment_variables)
                         THEN SetItem(data, "environmentVariables",
                                      environment_variables)
                         ELSE data)),
             PyNone)

\* Mutant of Builds_start: the branch case does not look at the other two
\* arguments.
Builds_start_branch_first(account_name, project_slug, branch, pull_request_number, commit, environment_variables) ==
    LET data == BuildData(account_name, project_slug)
    IN IF Truthy(branch)
       THEN Builds_start_send(SetItem(data, "branch", branch),
                              environment_variables)
       ELSE IF Truthy(pull_request_number) /\ ~Truthy(commit)
       THEN Builds_start_send(SetItem(data, "pullRequestId",
                                      pull_request_number),
                              environment_variables)
       ELSE Fails("AppveyorClientError",
                  "Must provide only one of branch or one pull request " \o
                  "id or one commit id")

Builds_start(account_name, project_slug, branch, pull_request_number, commit, environment_variables) ==
    LET data == BuildData(account_name, project_slug)
    IN IF Truthy(branch) /\ ~Truthy(pull_request_number) /\ ~Truthy(commit)
       THEN Builds_start_send(SetItem(data, "branch", branch),
                              environment_variables)
       ELSE IF Truthy(commit) /\ ~Truthy(commit)
                 /\ ~Truthy(pull_request_number)
       THEN Builds_start_send(SetItem(data, "commitId", commit),
                              environment_variables)
       ELSE IF Truthy(pull_request_number) /\ ~Truthy(commit)
                 /\ ~Truthy(branch)
       THEN Builds_start_send(SetItem(data, "pullRequestId",
                                      pull_request_number),
                              environment_variables)
       ELSE Fails("AppveyorClientError",
                  "Must provide only one of branch or one pull request " \o
                  "id or one commit id")

Builds_cancel(account_name, project_slug, build_version) ==
    Dispatch(Format(<<"DELETE", " ", "/api/builds/", "{account_name}", "/",
                      "{project_slug}", "/", "{build_version}">>,
                    ProjectFields(account_name, project_slug) @@
                        ("{build_version}" :> build_version)),
             PyNone, PyNone)

Builds_log(job_id) ==
    Dispatch(Format(<<"GET", " ", "/api/buildjobs/", "{job_id}", "/log">>,
                    [f \in {"{job_id}"} |-> job_id]),
             PyNone, PyNone)

(***************************************************************************)
(* Environments                                                            *)
(***************************************************************************)
EnvironmentFields(deployment_environment_id) ==
    [f \in {"{deployment_environment_id}"} |-> deployment_environment_id]

Environments_get ==
    Dispatch(<<"GET", " ", "/api/environments">>, PyNone, PyNone)

Environments_settings(deployment_environment_id) ==
    Dispatch(Format(<<"GET", " ", "/api/environments/",
                      "{deployment_environment_id}", "/settings">>,
                    EnvironmentFields(deployment_environment_id)),
             PyNone, PyNone)

Environments_deployments(deployment_environment_id) ==
    Dispatch(Format(<<"GET", " ", "/api/environments/",
                      "{deployment_environment_id}", "/deployments">>,
                    EnvironmentFields(deployment_environment_id)),
             PyNone, PyNone)

Environments_add(environment) ==
    Dispatch(<<"POST", " ", "/api/environments">>,
             PyStr(dumps(environment)), PyNone)

Environments_update(environment) ==
    Dispatch(<<"PUT", " ", "/api/environments">>,
             PyStr(dumps(environment)), PyNone)

Environments_delete(deployment_environment_id) ==
    Dispatch(Format(<<"DELETE", " ", "/api/environments/",
                      "{deployment_environment_id}">>,
                    EnvironmentFields(deployment_environment_id)),
             PyNone, PyNone)

(***************************************************************************)
(* Deployments                                                             *)
(***************************************************************************)
Deployments_get(deployment_id) ==
    Dispatch(Format(<<"GET", " ", "/api/deployments/", "{deployment_id}">>,
                    [f \in {"{deployment_id}"} |-> deployment_id]),
             PyNone, PyNone)

Deployments_start(account_name, project_slug, environment_name, build_version, build_job_id, environment_variables) ==
    LET data == PyDict(<< <<"environmentName", environment_name>>,
                          <<"accountName", account_name>>,
                          <<"projectSlug", project_slug>>,
                          <<"buildVersion", build_version>>,
                          <<"environmentVariables",
                            environment_variables>> >>)
    IN Dispatch(<<"POST", " ", "/api/deployments">>,
                PyStr(dumps(IF Truthy(build_job_id)
                            THEN SetItem(data, "buildJobId", build_job_id)
                            ELSE data)),
                PyNone)

Deployments_cancel(deployment_id) ==
    Dispatch(<<"PUT", " ", "/api/deployments/stop">>,
             PyStr(dumps(PyDict(<< <<"deploymentId", deployment_id>> >>))),
             PyNone)

(***************************************************************************)
(* Spec: one client and its caller.                                        *)
(*                                                                         *)
(* A call runs the method up to the blocking session call (pc = "waiting", *)
(* the request is in flight), the response then completes it (pc =         *)
(* "returned") and the caller goes on (pc = "idle").  A method that raises *)
(* before the session call goes to "returned" directly.                    *)
(***************************************************************************)
Tokens == {PyStr("t0ken"), PyStr("s3cret")}
EndpointArgs == {PyNone, PyStr(""), PyStr("http://localhost:8080")}

\* Response bodies of Spec: empty, blank, a number, an array, text that is
\* not JSON, padded text that is not JSON, and project listings.
ClientBodies ==
    {<<>>, <<" ">>, <<"1">>, <<"[", "1", "]">>, <<"x">>, <<" ", "x", " ">>,
     <<"[", "]">>, <<"{P1}">>, <<"[", "{P2}", "]">>,
     <<"[", "{P2}", ",", "{P1}", ",", "{P3}", "]">>}

RepoNames ==
    {PyStr("ann/repo"), PyStr("ANN/REPO"), PyStr("zed/none")}

OptIds == {PyNone, PyInt(0), PyInt(7)}
Ids == {PyInt(7), PyStr("id-9")}
Accounts == {PyStr("acct")}
Slugs == {PyStr("proj")}
OptBranches == {PyNone, PyStr(""), PyStr("master")}
OptPullRequests == {PyNone, PyInt(0), PyInt(42)}
OptCommits == {PyNone, PyStr(""), PyStr("c0ffee")}
EnvironmentVariables ==
    {PyDict(<<>>), PyDict(<< <<"VAR", PyStr("1")>> >>)}
OptPasswords == {PyNone, PyStr(""), PyStr("pw")}
ProviderArgs == {PyStr("gitHub"), PyStr("subversion"), PyStr("svn"),
                 PyStr("github"), PyNone}
Documents ==
    {PyDict(<<>>), PyDict(<< <<"name", PyStr("n")>>, <<"id", PyInt(3)>> >>)}

ClientObject == [t |-> "object", v |-> "AppveyorClient"]

Init ==
    /\ response = NoResponse
    /\ parsed = NoOutcome
    /\ ClientIdle

\* Mutant of SessionHeaders: the token is sent bare.
SessionHeaders_bare_token(token) ==
    SetItem(update(SessionDefaultHeaders, _HEADERS.v),
            "Authorization", PyStr(Str(token)))

\* The session headers after lines 55 and 126.
SessionHeaders(token) ==
    SetItem(update(SessionDefaultHeaders, _HEADERS.v),
            "Authorization", PyStr("Bearer " \o Str(token)))

\* AppveyorClient.__init__ and _authenticate, up to the session call.
Construct ==
    /\ client = "none"
    /\ pc = "idle"
    /\ requests_sent < MaxRequests
    /\ \E token \in Tokens, endpoint \in EndpointArgs :
           /\ _endpoint' = IF Truthy(endpoint) THEN endpoint.v
                           ELSE DefaultEndpoint
           /\ headers' = SessionHeaders(token)
           /\ call' = [op |-> "__init__",
                       args |-> [token |-> token, endpoint |-> endpoint],
                       sent_before |-> requests_sent]
           /\ inflight' = _get(_endpoint', headers', "/api/roles",
                               PyNone, PyNone)
           /\ requests_sent' = requests_sent + 1
           /\ pc' = "waiting"
           /\ outcome' = NoOutcome
           /\ client' = "constructing"
           /\ UNCHANGED <<response, parsed, defaults>>

\* Mutant of DefaultsAfter: Deployments.start stores the job id in the
\* environment_variables dict it was given instead of in data.
DefaultsAfter_shared_write(op, args, d) ==
    IF op = "Deployments.start" /\ args.defaulted /\ Truthy(args.build_job_id)
    THEN [d EXCEPT !.deployments_start =
                       SetItem(@, "buildJobId", args.build_job_id)]
    ELSE d

\* The shared default dicts after a call.  Builds.start (lines 836-837) and
\* Deployments.start (lines 1051-1061) only read environment_variables and
\* store entries in the local data; no other method has a mutable default.
DefaultsAfter(op, args, d) == d

\* A resource-group method, up to the session call or to its raise.
Invoke(op, args, prepared) ==
    /\ client = "ready"
    /\ requests_sent < MaxRequests
    /\ call' = [op |-> op, args |-> args, sent_before |-> requests_sent]
    /\ LET r == IF prepared.raises
                THEN [sends |-> FALSE, request |-> NoRequest,
                      error |-> prepared.error]
                ELSE _request(_endpoint, headers, prepared.method_url,
                              prepared.body, prepared.json)
       IN IF r.sends
          THEN /\ inflight' = r.request
               /\ requests_sent' = requests_sent + 1
               /\ pc' = "waiting"
               /\ outcome' = NoOutcome
          ELSE /\ inflight' = NoRequest
               /\ requests_sent' = requests_sent
               /\ pc' = "returned"
               /\ outcome' = r.error
    /\ defaults' = DefaultsAfter(op, args, defaults)
    /\ UNCHANGED <<client, _endpoint, headers, response, parsed>>

PyTuple(items) == [t |-> "tuple", v |-> items]

\* Lines 138-142: after the loop.  found.bound tells whether the loop has
\* assigned account_name and project_slug; reading them unassigned raises
\* UnboundLocalError.
after_loop(repo_full_name, found) ==
    IF ~found.bound
    THEN Raise("UnboundLocalError", PyStr("account_name"))
    ELSE IF found.account_name = PyNone /\ found.project_slug = PyNone
    THEN Raise("AppveyorError",
               PyStr("Repository full name '" \o Str(repo_full_name) \o
                     "'is invalid"))
    ELSE Return(PyTuple(<<found.account_name, found.project_slug>>))

\* Lines 132-136: the loop over the listing.
RECURSIVE project_loop(_, _)
project_loop(items, repo_full_name) ==
    IF items = <<>>
    THEN after_loop(repo_full_name,
                    [bound |-> FALSE, account_name |-> PyNone,
                     project_slug |-> PyNone])
    ELSE LET project == Head(items)
         IN IF project.t # "dict"
            THEN Raise("TypeError", PyStr("project['repositoryName']"))
            ELSE IF ~HasKey(project, "repositoryName")
            THEN Raise("KeyError", PyStr("repositoryName"))
            ELSE IF GetItem(project, "repositoryName").t # "str"
            THEN Raise("AttributeError", PyStr("lower"))
            ELSE IF Lower(GetItem(project, "repositoryName").v)
                        = Lower(repo_full_name.v)
            THEN IF ~HasKey(project, "accountName")
                 THEN Raise("KeyError", PyStr("accountName"))
                 ELSE IF ~HasKey(project, "slug")
                 THEN Raise("KeyError", PyStr("slug"))
                 ELSE after_loop(repo_full_name,
                                 [bound |-> TRUE,
                                  account_name |->
                                      GetItem(project, "accountName"),
                                  project_slug |-> GetItem(project, "slug")])
            ELSE project_loop(Tail(items), repo_full_name)

\* AppveyorClient.account_slug_for_repo, from the outcome of
\* self.projects.get() on.  Iterating a dict yields its keys.
account_slug_for_repo(repo_full_name, result) ==
    IF result.kind = "raise" THEN result
    ELSE LET projects == result.value
         IN IF projects.t = "list"
            THEN project_loop(projects.v, repo_full_name)
            ELSE IF projects.t = "dict"
            THEN project_loop([i \in 1..Len(projects.v) |->
                                  PyStr(projects.v[i][1])],
                              repo_full_name)
            ELSE Raise("TypeError", PyStr("for project in projects"))

\* Mutant of Completion: the constructor ignores the outcome of the
\* authentication call.
Completion_unchecked(op, result) ==
    IF op = "__init__" THEN Return(ClientObject)
    ELSE IF op = "account_slug_for_repo"
    THEN account_slug_for_repo(call.args.repo_full_name, result)
    ELSE result

\* Mutant of Completion: a resource-group method swallows the dispatcher's
\* AppveyorError and returns None.
Completion_swallow(op, result) ==
    IF op = "__init__" /\ result.kind = "return"
    THEN Return(ClientObject)
    ELSE IF op = "account_slug_for_repo"
    THEN account_slug_for_repo(call.args.repo_full_name, result)
    ELSE IF result.kind = "raise" /\ result.exc = "AppveyorError"
    THEN Return(PyNone)
    ELSE result

\* What the call gives its caller once the dispatcher has interpreted the
\* response: every resource-group method returns the dispatcher's value or
\* lets its exception pass; __init__ discards the value of _authenticate
\* and yields the client object; account_slug_for_repo goes on with the
\* listing.
Completion(op, result) ==
    IF op = "__init__" /\ result.kind = "return"
    THEN Return(ClientObject)
    ELSE IF op = "account_slug_for_repo"
    THEN account_slug_for_repo(call.args.repo_full_name, result)
    ELSE result

\* Mutant of Receive: a failure response is answered by sending the
\* request once more.
Receive_retry ==
    /\ pc = "waiting"
    /\ \E resp \in Responses(ClientBodies) :
           /\ response' = resp
           /\ parsed' = _parse_response_contents(resp)
           /\ outcome' = Completion(call.op, parsed')
           /\ client' = IF call.op = "__init__"
                        THEN IF outcome'.kind = "return" THEN "ready"
                             ELSE "none"
                        ELSE client
           /\ pc' = "returned"
           /\ requests_sent' = IF resp.status_code >= 500
                               THEN requests_sent + 1
                               ELSE requests_sent
           /\ UNCHANGED <<_endpoint, headers, call, inflight, defaults>>

\* The response arrives and the call completes.
Receive ==
    /\ pc = "waiting"
    /\ \E resp \in Responses(ClientBodies) :
           /\ response' = resp
           /\ parsed' = _parse_response_contents(resp)
           /\ outcome' = Completion(call.op, parsed')
           /\ client' = IF call.op = "__init__"
                        THEN IF outcome'.kind = "return" THEN "ready"
                             ELSE "none"
                        ELSE client
           /\ pc' = "returned"
           /\ UNCHANGED <<_endpoint, headers, call, inflight, requests_sent,
                          defaults>>

\* The caller goes on after the return or the exception.  A client whose
\* constructor raised does not exist.
Continue ==
    /\ pc = "returned"
    /\ pc' = "idle"
    /\ call' = NoCall
    /\ outcome' = NoOutcome
    /\ inflight' = NoRequest
    /\ response' = NoResponse
    /\ parsed' = NoOutcome
    /\ _endpoint' = IF client = "none" THEN "" ELSE _endpoint
    /\ headers' = IF client = "none" THEN PyDict(<<>>) ELSE headers
    /\ UNCHANGED <<client, requests_sent, defaults>>

(***************************************************************************)
(* One action per resource-group method.                                   *)
(* A method is called while the caller is between calls (pc = "idle");    *)
(* its arguments are chosen at the call.                                   *)
(***************************************************************************)
\* AppveyorClient.account_slug_for_repo, up to the session call made by
\* self.projects.get().
AccountSlugForRepo ==
    /\ pc = "idle"
    /\ \E repo_full_name \in RepoNames :
           Invoke("account_slug_for_repo",
                  [repo_full_name |-> repo_full_name],
                  Projects_get)

UsersGet ==
    /\ pc = "idle"
    /\ \E user_id \in OptIds :
           Invoke("Users.get",
                  [user_id |-> user_id],
                  Users_get(user_id))

UsersAdd ==
    /\ pc = "idle"
    /\ \E full_name \in {PyStr("Ann")}, email \in {PyStr("a@b.c")}, role_id \in {PyInt(4)}, password \in OptPasswords, generate_password \in {PyBool(FALSE), PyBool(TRUE)} :
           Invoke("Users.add",
                  [full_name |-> full_name, email |-> email, role_id |-> role_id, password |-> password, generate_password |-> generate_password],
                  Users_add(full_name, email, role_id, password,
                            generate_password))

UsersUpdate ==
    /\ pc = "idle"
    /\ \E user \in Documents :
           Invoke("Users.update",
                  [user |-> user],
                  Users_update(user))

UsersDelete ==
    /\ pc = "idle"
    /\ \E user_id \in Ids :
           Invoke("Users.delete",
                  [user_id |-> user_id],
                  Users_delete(user_id))

CollaboratorsGet ==
    /\ pc = "idle"
    /\ \E user_id \in OptIds :
           Invoke("Collaborators.get",
                  [user_id |-> user_id],
                  Collaborators_get(user_id))

CollaboratorsAdd ==
    /\ pc = "idle"
    /\ \E email \in {PyStr("a@b.c")}, role_id \in Ids :
           Invoke("Collaborators.add",
                  [email |-> email, role_id |-> role_id],
                  Collaborators_add(email, role_id))

CollaboratorsUpdate ==
    /\ pc = "idle"
    /\ \E user_id \in Ids, role_id \in Ids :
           Invoke("Collaborators.update",
                  [user_id |-> user_id, role_id |-> role_id],
                  Collaborators_update(user_id, role_id))

CollaboratorsDelete ==
    /\ pc = "idle"
    /\ \E user_id \in Ids :
           Invoke("Collaborators.delete",
                  [user_id |-> user_id],
                  Collaborators_delete(user_id))

RolesGet ==
    /\ pc = "idle"
    /\ \E role_id \in OptIds :
           Invoke("Roles.get",
                  [role_id |-> role_id],
                  Roles_get(role_id))

RolesAddRole ==
    /\ pc = "idle"
    /\ \E name \in {PyStr("dev")} :
           Invoke("Roles.add_role",
                  [name |-> name],
                  Roles_add_role(name))

RolesUpdateRole ==
    /\ pc = "idle"
    /\ \E role \in Documents :
           Invoke("Roles.update_role",
                  [role |-> role],
                  Roles_update_role(role))

RolesDeleteRole ==
    /\ pc = "idle"
    /\ \E role_id \in Ids :
           Invoke("Roles.delete_role",
                  [role_id |-> role_id],
                  Roles_delete_role(role_id))

ProjectsGet ==
    /\ pc = "idle"
    /\ Invoke("Projects.get", <<>>, Projects_get)

ProjectsLastBuild ==
    /\ pc = "idle"
    /\ \E account_name \in Accounts, project_slug \in Slugs :
           Invoke("Projects.last_build",
                  [account_name |-> account_name, project_slug |-> project_slug],
                  Projects_last_build(account_name, project_slug))

ProjectsLastBranchBuild ==
    /\ pc = "idle"
    /\ \E account_name \in Accounts, project_slug \in Slugs, build_branch \in {PyStr("master")} :
           Invoke("Projects.last_branch_build",
                  [account_name |-> account_name, project_slug |-> project_slug, build_branch |-> build_branch],
                  Projects_last_branch_build(account_name, project_slug,
                                             build_branch))

ProjectsBuild ==
    /\ pc = "idle"
    /\ \E account_name \in Accounts, project_slug \in Slugs, build_version \in {PyStr("1.0.3")} :
           Invoke("Projects.build",
                  [account_name |-> account_name, project_slug |-> project_slug, build_version |-> build_version],
                  Projects_build(account_name, project_slug, build_version))

ProjectsHistory ==
    /\ pc = "idle"
    /\ \E account_name \in Accounts, project_slug \in Slugs, records_per_page \in {PyInt(50)}, start_build_id \in OptIds, branch \in OptBranches :
           Invoke("Projects.history",
                  [account_name |-> account_name, project_slug |-> project_slug, records_per_page |-> records_per_page, start_build_id |-> start_build_id, branch |-> branch],
                  Projects_history(account_name, project_slug,
                                   records_per_page, start_build_id, branch))

ProjectsDeployments ==
    /\ pc = "idle"
    /\ \E account_name \in Accounts, project_slug \in Slugs :
           Invoke("Projects.deployments",
                  [account_name |-> account_name, project_slug |-> project_slug],
                  Projects_deployments(account_name, project_slug))

ProjectsSettings ==
    /\ pc = "idle"
    /\ \E account_name \in Accounts, project_slug \in Slugs :
           Invoke("Projects.settings",
                  [account_name |-> account_name, project_slug |-> project_slug],
                  Projects_settings(account_name, project_slug))

ProjectsAdd ==
    /\ pc = "idle"
    /\ \E repository_provider \in ProviderArgs, repository_name \in {PyStr("ann/repo")} :
           Invoke("Projects.add",
                  [repository_provider |-> repository_provider, repository_name |-> repository_name],
                  Projects_add(repository_provider, repository_name))

ProjectsUpdate ==
    /\ pc = "idle"
    /\ \E account_name \in Accounts, project_slug \in Slugs, project \in Documents :
           Invoke("Projects.update",
                  [account_name |-> account_name, project_slug |-> project_slug, project |-> project],
                  Projects_update(account_name, project_slug, project))

ProjectsUpdateSettings ==
    /\ pc = "idle"
    /\ \E account_name \in Accounts, project_slug \in Slugs, settings \in Documents :
           Invoke("Projects.update_settings",
                  [account_name |-> account_name, project_slug |-> project_slug, settings |-> settings],
                  Projects_update_settings(account_name, project_slug,
                                           settings))

ProjectsUpdateBuildNumber ==
    /\ pc = "idle"
    /\ \E account_name \in Accounts, project_slug \in Slugs, next_build_number \in {PyInt(11)} :
           Invoke("Projects.update_build_number",
                  [account_name |-> account_name, project_slug |-> project_slug, next_build_number |-> next_build_number],
                  Projects_update_build_number(account_name, project_slug,
                                               next_build_number))

ProjectsDeleteBuildCache ==
    /\ pc = "idle"
    /\ \E account_name \in Accounts, project_slug \in Slugs :
           Invoke("Projects.delete_build_cache",
                  [account_name |-> account_name, project_slug |-> project_slug],
                  Projects_delete_build_cache(account_name, project_slug))

ProjectsDelete ==
    /\ pc = "idle"
    /\ \E account_name \in Accounts, project_slug \in Slugs :
           Invoke("Projects.delete",
                  [account_name |-> account_name, project_slug |-> project_slug],
                  Projects_delete(account_name, project_slug))

BuildsStart ==
    /\ pc = "idle"
    /\ \E account_name \in Accounts, project_slug \in Slugs, branch \in OptBranches, pull_request_number \in OptPullRequests, commit \in OptCommits, defaulted \in BOOLEAN :
         \E environment_variables \in (IF defaulted THEN {defaults.builds_start} ELSE EnvironmentVariables) :
           Invoke("Builds.start",
                  [account_name |-> account_name, project_slug |-> project_slug, branch |-> branch, pull_request_number |-> pull_request_number, commit |-> commit, environment_variables |-> environment_variables, defaulted |-> defaulted],
                  Builds_start(account_name, project_slug, branch,
                               pull_request_number, commit,
                               environment_variables))

BuildsCancel ==
    /\ pc = "idle"
    /\ \E account_name \in Accounts, project_slug \in Slugs, build_version \in {PyStr("1.0.3")} :
           Invoke("Builds.cancel",
                  [account_name |-> account_name, project_slug |-> project_slug, build_version |-> build_version],
                  Builds_cancel(account_name, project_slug, build_version))

BuildsLog ==
    /\ pc = "idle"
    /\ \E job_id \in Ids :
           Invoke("Builds.log",
                  [job_id |-> job_id],
                  Builds_log(job_id))

EnvironmentsGet ==
    /\ pc = "idle"
    /\ Invoke("Environments.get", <<>>, Environments_get)

EnvironmentsSettings ==
    /\ pc = "idle"
    /\ \E deployment_environment_id \in Ids :
           Invoke("Environments.settings",
                  [deployment_environment_id |-> deployment_environment_id],
                  Environments_settings(deployment_environment_id))

EnvironmentsDeployments ==
    /\ pc = "idle"
    /\ \E deployment_environment_id \in Ids :
           Invoke("Environments.deployments",
                  [deployment_environment_id |-> deployment_environment_id],
                  Environments_deployments(deployment_environment_id))

EnvironmentsAdd ==
    /\ pc = "idle"
    /\ \E environment \in Documents :
           Invoke("Environments.add",
                  [environment |-> environment],
                  Environments_add(environment))

EnvironmentsUpdate ==
    /\ pc = "idle"
    /\ \E environment \in Documents :
           Invoke("Environments.update",
                  [environment |-> environment],
                  Environments_update(environment))

EnvironmentsDelete ==
    /\ pc = "idle"
    /\ \E deployment_environment_id \in Ids :
           Invoke("Environments.delete",
                  [deployment_environment_id |-> deployment_environment_id],
                  Environments_delete(deployment_environment_id))

DeploymentsGet ==
    /\ pc = "idle"
    /\ \E deployment_id \in Ids :
           Invoke("Deployments.get",
                  [deployment_id |-> deployment_id],
                  Deployments_get(deployment_id))

DeploymentsStart ==
    /\ pc = "idle"
    /\ \E account_name \in Accounts, project_slug \in Slugs, environment_name \in {PyStr("prod")}, build_version \in {PyStr("1.0.3")}, build_job_id \in OptIds, defaulted \in BOOLEAN :
         \E environment_variables \in (IF defaulted THEN {defaults.deployments_start} ELSE EnvironmentVariables) :
           Invoke("Deployments.start",
                  [account_name |-> account_name, project_slug |-> project_slug, environment_name |-> environment_name, build_version |-> build_version, build_job_id |-> build_job_id, environment_variables |-> environment_variables, defaulted |-> defaulted],
                  Deployments_start(account_name, project_slug,
                                    environment_name, build_version,
                                    build_job_id, environment_variables))

DeploymentsCancel ==
    /\ pc = "idle"
    /\ \E deployment_id \in Ids :
           Invoke("Deployments.cancel",
                  [deployment_id |-> deployment_id],
                  Deployments_cancel(deployment_id))

Next ==
    \/ Construct
    \/ Receive
    \/ Continue
    \/ AccountSlugForRepo
    \/ UsersGet
    \/ UsersAdd
    \/ UsersUpdate
    \/ UsersDelete
    \/ CollaboratorsGet
    \/ CollaboratorsAdd
    \/ CollaboratorsUpdate
    \/ CollaboratorsDelete
    \/ RolesGet
    \/ RolesAddRole
    \/ RolesUpdateRole
    \/ RolesDeleteRole
    \/ ProjectsGet
    \/ ProjectsLastBuild
    \/ ProjectsLastBranchBuild
    \/ ProjectsBuild
    \/ ProjectsHistory
    \/ ProjectsDeployments
    \/ ProjectsSettings
    \/ ProjectsAdd
    \/ ProjectsUpdate
    \/ ProjectsUpdateSettings
    \/ ProjectsUpdateBuildNumber
    \/ ProjectsDeleteBuildCache
    \/ ProjectsDelete
    \/ BuildsStart
    \/ BuildsCancel
    \/ BuildsLog
    \/ EnvironmentsGet
    \/ EnvironmentsSettings
    \/ EnvironmentsDeployments
    \/ EnvironmentsAdd
    \/ EnvironmentsUpdate
    \/ EnvironmentsDelete
    \/ DeploymentsGet
    \/ DeploymentsStart
    \/ DeploymentsCancel

Spec == Init /\ [][Next]_vars

(***************************************************************************)
(* RequestSpec: the dispatcher of a constructed client, called directly    *)
(* with descriptors, bodies and json values of a bounded set.              *)
(***************************************************************************)
DescriptorVerbs == {"GET", "POST", "PUT", "DELETE"}
DescriptorPaths ==
    {<<"/api/users">>, <<"/api/roles/", "7">>, <<"/api/deployments/stop">>}
RequestBodies == {PyNone, PyStr("{\"userId\": 3}")}
RequestJsons == {PyNone, PyDict(<< <<"nextBuildNumber", PyInt(11)>> >>)}

RequestInit ==
    /\ response = NoResponse
    /\ parsed = NoOutcome
    /\ defaults = InitialDefaults
    /\ client = "ready"
    /\ _endpoint \in {DefaultEndpoint, "http://localhost:8080"}
    /\ headers \in {SessionHeaders(token) : token \in Tokens}
    /\ pc = "idle"
    /\ call = NoCall
    /\ inflight = NoRequest
    /\ requests_sent = 1
    /\ outcome = NoOutcome

\* AppveyorClient._request, up to the session call.
Request ==
    /\ pc = "idle"
    /\ \E verb \in DescriptorVerbs, path \in DescriptorPaths, body \in RequestBodies, json \in RequestJsons :
           Invoke("_request",
                  [method_url |-> <<verb, " ">> \o path, body |-> body, json |-> json],
                  Dispatch(<<verb, " ">> \o path, body, json))

RequestNext ==
    \/ Request
    \/ Receive
    \/ Continue

RequestSpec == RequestInit /\ [][RequestNext]_vars

(***************************************************************************)
(* Claims about the client (checked under Spec).                           *)
(***************************************************************************)
InCall(op) == call.op = op /\ pc \in {"waiting", "returned"}

IsUsageError(o) == o.kind = "raise" /\ o.exc = "AppveyorClientError"

\* The call in progress has sent nothing.
NothingSent == requests_sent = call.sent_before /\ inflight = NoRequest

\* The call in progress has sent exactly the one request given.
SentOne(verb, path, data, json) ==
    /\ requests_sent = call.sent_before + 1
    /\ inflight.verb = verb
    /\ inflight.url = _endpoint \o path
    /\ inflight.data = data
    /\ inflight.json = json

\* C6: Builds.start with both branch and pull_request_number set raises
\* AppveyorClientError, whatever commit and environment_variables are, and
\* the call has sent no HTTP request.
C6_BranchAndPullRequestRejected ==
    (InCall("Builds.start") /\ Truthy(call.args.branch)
                            /\ Truthy(call.args.pull_request_number))
        => /\ pc = "returned"
           /\ IsUsageError(outcome)
           /\ NothingSent

C6_Witness ==
    /\ InCall("Builds.start")
    /\ call.args.branch = PyStr("master")
    /\ call.args.pull_request_number = PyInt(42)
    /\ ~Truthy(call.args.commit)
    /\ Truthy(call.args.environment_variables)
    /\ IsUsageError(outcome)
    /\ requests_sent = call.sent_before
    /\ requests_sent > 0

\* The body Builds.start is to send for one selector key.
BuildBody(args, key, x) ==
    LET data == PyDict(<< <<"accountName", args.account_name>>,
                          <<"projectSlug", args.project_slug>>,
                          <<key, x>> >>)
    IN PyStr(dumps(IF Truthy(args.environment_variables)
                   THEN PyDict(Append(data.v,
                                      <<"environmentVariables",
                                        args.environment_variables>>))
                   ELSE data))

\* C7: Builds.start accepts exactly one of branch, commit and
\* pull_request_number: with exactly one set it sends one POST /api/builds
\* whose body has accountName, projectSlug and the corresponding key
\* (branch, commitId, pullRequestId); with none or several set it raises
\* AppveyorClientError.
C7_ExactlyOneBuildSelector ==
    InCall("Builds.start")
        => LET a == call.args
               b == Truthy(a.branch)
               c == Truthy(a.commit)
               p == Truthy(a.pull_request_number)
           IN IF b /\ ~c /\ ~p
              THEN SentOne("POST", "/api/builds",
                           BuildBody(a, "branch", a.branch), PyNone)
              ELSE IF c /\ ~b /\ ~p
              THEN SentOne("POST", "/api/builds",
                           BuildBody(a, "commitId", a.commit), PyNone)
              ELSE IF p /\ ~b /\ ~c
              THEN SentOne("POST", "/api/builds",
                           BuildBody(a, "pullRequestId",
                                     a.pull_request_number), PyNone)
              ELSE IsUsageError(outcome) /\ NothingSent

ValidProviders ==
    {PyStr("gitHub"), PyStr("bitBucket"), PyStr("vso"), PyStr("gitLab"),
     PyStr("kiln"), PyStr("stash"), PyStr("git"), PyStr("mercurial"),
     PyStr("subversion")}

InvalidProviderMsg ==
    "Invalid repository provider. Must be one of ['gitHub', 'bitBucket', 'vso', 'gitLab', 'kiln', 'stash', 'git', 'mercurial', 'subversion']"

\* C8: Projects.add with a repository_provider outside the nine valid
\* providers raises AppveyorClientError whose message lists the valid
\* providers and sends no HTTP request; with a valid provider it sends one
\* POST /api/projects carrying repositoryProvider and repositoryName.
C8_ProviderValidated ==
    InCall("Projects.add")
        => IF call.args.repository_provider \in ValidProviders
           THEN SentOne("POST", "/api/projects",
                        PyStr(dumps(PyDict(
                            << <<"repositoryProvider",
                                 call.args.repository_provider>>,
                               <<"repositoryName",
                                 call.args.repository_name>> >>))),
                        PyNone)
           ELSE /\ pc = "returned"
                /\ outcome = Raise("AppveyorClientError",
                                   PyStr(InvalidProviderMsg))
                /\ NothingSent

C8_Witness ==
    /\ InCall("Projects.add")
    /\ call.args.repository_provider = PyStr("svn")
    /\ IsUsageError(outcome)
    /\ requests_sent = call.sent_before
    /\ requests_sent > 0

\* C9: Users.add with generate_password false and no or an empty password
\* raises AppveyorClientError and sends no HTTP request; and whatever call
\* ends in AppveyorClientError has left the number of HTTP requests sent
\* unchanged.
C9_UsageErrorsSendNothing ==
    /\ (InCall("Users.add") /\ ~Truthy(call.args.generate_password)
                            /\ ~Truthy(call.args.password))
           => /\ pc = "returned"
              /\ IsUsageError(outcome)
              /\ NothingSent
    /\ IsUsageError(outcome) => NothingSent

C9_Witness ==
    /\ InCall("Users.add")
    /\ call.args.generate_password = PyBool(FALSE)
    /\ call.args.password = PyStr("")
    /\ IsUsageError(outcome)
    /\ requests_sent = call.sent_before
    /\ requests_sent > 0

\* C10: constructing the client sets the Authorization header to
\* 'Bearer <token>' and sends one GET /api/roles carrying it; when that
\* response has a status other than 200 and 204 the constructor raises
\* AppveyorError and no client object is returned.
C10_ConstructorAuthenticates ==
    InCall("__init__")
        => /\ HasKey(headers, "Authorization")
           /\ GetItem(headers, "Authorization")
                  = PyStr("Bearer " \o call.args.token.v)
           /\ SentOne("GET", "/api/roles", PyNone, PyNone)
           /\ inflight.headers = headers
           /\ (pc = "returned" /\ response.status_code \notin {200, 204})
                  => /\ IsAppveyorError(outcome)
                     /\ client = "none"

C10_Witness ==
    /\ InCall("__init__")
    /\ pc = "returned"
    /\ response.status_code = 401
    /\ call.args.token = PyStr("s3cret")
    /\ GetItem(inflight.headers, "Authorization") = PyStr("Bearer s3cret")
    /\ IsAppveyorError(outcome)
    /\ client = "none"

(***************************************************************************)
(* Claims about the session, the dispatcher and the paths.                 *)
(***************************************************************************)
ResourceCall == call.op \notin {"", "__init__", "account_slug_for_repo"}

Exists == client \in {"constructing", "ready"}

SessionConfigured ==
    /\ HasKey(headers, "Content-type")
    /\ GetItem(headers, "Content-type") = PyStr("application/json")
    /\ HasKey(headers, "User-Agent")
    /\ GetItem(headers, "User-Agent") = PyStr("Appveyor Python Client")
    /\ HasKey(headers, "Authorization")
    /\ \E token \in Tokens :
           GetItem(headers, "Authorization") = PyStr("Bearer " \o token.v)

\* C11: from construction on the session's Authorization header is
\* 'Bearer <token>' with the token given to the constructor, Content-type
\* and User-Agent are as configured, every request sent carries the session
\* headers, and no step of any operation, successful or failing, changes
\* the session headers or the endpoint.
C11_SessionFixed ==
    /\ [](/\ Exists => SessionConfigured
          /\ InCall("__init__") =>
                 GetItem(headers, "Authorization")
                     = PyStr("Bearer " \o call.args.token.v)
          /\ inflight # NoRequest => inflight.headers = headers)
    /\ [][Exists => (headers' = headers /\ _endpoint' = _endpoint)]_vars

C11_Witness ==
    /\ client = "ready"
    /\ ResourceCall
    /\ pc = "returned"
    /\ outcome.kind = "raise"
    /\ requests_sent = 3
    /\ GetItem(inflight.headers, "Authorization") = PyStr("Bearer s3cret")
    /\ GetItem(inflight.headers, "User-Agent")
           = PyStr("Appveyor Python Client")

C13_ApiErrorPropagates ==
    (ResourceCall /\ pc = "returned" /\ IsAppveyorError(parsed))
        => outcome = parsed

C13_Witness ==
    /\ call.op = "Deployments.cancel"
    /\ pc = "returned"
    /\ response.status_code = 404
    /\ IsAppveyorError(parsed)
    /\ outcome = parsed
    /\ GetItem(outcome.value, "status_code") = PyInt(404)

\* C14: Roles.get with a role id requests GET /api/roles/<role_id>,
\* Roles.get without one requests GET /api/roles, and Roles.delete_role
\* requests DELETE /api/roles/<role_id>, the given id being in the path.
C14_RolePathsCarryTheId ==
    /\ InCall("Roles.get") =>
           /\ inflight.verb = "GET"
           /\ inflight.url = _endpoint \o
                  (IF Truthy(call.args.role_id)
                   THEN "/api/roles/" \o Str(call.args.role_id)
                   ELSE "/api/roles")
    /\ InCall("Roles.delete_role") =>
           /\ inflight.verb = "DELETE"
           /\ inflight.url = _endpoint \o "/api/roles/"
                                 \o Str(call.args.role_id)

\* The methods whose path is a literal of the source.
MethodPath ==
    ("__init__" :> "/api/roles") @@
    ("account_slug_for_repo" :> "/api/projects") @@
    ("Users.add" :> "/api/users") @@
    ("Users.update" :> "/api/users") @@
    ("Collaborators.add" :> "/api/collaborators") @@
    ("Collaborators.update" :> "/api/collaborators") @@
    ("Roles.add_role" :> "/api/roles") @@
    ("Roles.update_role" :> "/api/roles") @@
    ("Projects.get" :> "/api/projects") @@
    ("Projects.add" :> "/api/projects") @@
    ("Builds.start" :> "/api/builds") @@
    ("Environments.get" :> "/api/environments") @@
    ("Environments.add" :> "/api/environments") @@
    ("Environments.update" :> "/api/environments") @@
    ("Deployments.start" :> "/api/deployments") @@
    ("Deployments.cancel" :> "/api/deployments/stop")

\* C15: with the default endpoint a method whose path is /api/X requests
\* exactly https://ci.appveyor.com/api/X, and with an alternate endpoint E
\* it requests E followed by /api/X.
C15_UrlIsEndpointThenPath ==
    (inflight # NoRequest /\ call.op \in DOMAIN MethodPath)
        => inflight.url =
               (IF _endpoint = DefaultEndpoint THEN "https://ci.appveyor.com"
                ELSE _endpoint) \o MethodPath[call.op]

\* C16: no call changes the shared default environment_variables dicts, so
\* a call that leaves environment_variables out sends the body of an empty
\* mapping after any earlier calls; and what a resource-group method yields
\* is the interpretation of its own response.
C16_NoStateAcrossCalls ==
    /\ defaults = InitialDefaults
    /\ (InCall("Builds.start") /\ call.args.defaulted
                               /\ inflight # NoRequest) =>
           LET a == [call.args EXCEPT !.environment_variables = PyDict(<<>>)]
           IN inflight.data =
                  IF Truthy(a.branch)
                  THEN BuildBody(a, "branch", a.branch)
                  ELSE BuildBody(a, "pullRequestId", a.pull_request_number)
    /\ (InCall("Deployments.start") /\ call.args.defaulted) =>
           LET a == call.args
               data == << <<"environmentName", a.environment_name>>,
                          <<"accountName", a.account_name>>,
                          <<"projectSlug", a.project_slug>>,
                          <<"buildVersion", a.build_version>>,
                          <<"environmentVariables", PyDict(<<>>)>> >>
           IN inflight.data =
                  PyStr(dumps(PyDict(
                      IF Truthy(a.build_job_id)
                      THEN Append(data, <<"buildJobId", a.build_job_id>>)
                      ELSE data)))
    /\ (ResourceCall /\ pc = "returned" /\ inflight # NoRequest) =>
           outcome = _parse_response_contents(response)

C16_Witness ==
    /\ InCall("Deployments.start")
    /\ call.args.defaulted
    /\ call.sent_before = 2
    /\ inflight.data = PyStr("{\"environmentName\": \"prod\", \"accountName\": \"acct\", \"projectSlug\": \"proj\", \"buildVersion\": \"1.0.3\", \"environmentVariables\": {}, \"buildJobId\": 7}")

GetMethods ==
    {"Users.get", "Collaborators.get", "Roles.get", "Projects.get",
     "Projects.last_build", "Projects.last_branch_build", "Projects.build",
     "Projects.history", "Projects.deployments", "Projects.settings",
     "Builds.log", "Environments.get", "Environments.settings",
     "Environments.deployments", "Deployments.get"}

\* C17: every method documented as a 'Get' sends an HTTP GET, never a
\* DELETE, POST or PUT; Collaborators.get among them.
C17_GetMethodsSendGet ==
    (call.op \in GetMethods /\ inflight # NoRequest) => inflight.verb = "GET"

IsProjectList(x) ==
    /\ x.t = "list"
    /\ \A i \in 1..Len(x.v) :
           /\ x.v[i].t = "dict"
           /\ {"repositoryName", "accountName", "slug"} \subseteq Keys(x.v[i])

Matches(project, repo_full_name) ==
    Lower(GetItem(project, "repositoryName").v) = Lower(repo_full_name.v)

\* C18: account_slug_for_repo sends one GET /api/projects; it returns the
\* (accountName, slug) of the first listed project whose repositoryName
\* equals repo_full_name ignoring case, and when no listed project matches
\* (an empty listing included) it raises AppveyorError, not an exception
\* of another type.
C18_AccountSlugForRepo ==
    InCall("account_slug_for_repo")
        => /\ SentOne("GET", "/api/projects", PyNone, PyNone)
           /\ pc = "returned" =>
                  /\ (response.status_code = 200
                        /\ JsonDecode(response.text).ok
                        /\ IsProjectList(JsonDecode(response.text).val)) =>
                         LET listed == JsonDecode(response.text).val.v
                             repo == call.args.repo_full_name
                             hits == {i \in 1..Len(listed) :
                                          Matches(listed[i], repo)}
                         IN IF hits = {} THEN IsAppveyorError(outcome)
                            ELSE LET first == CHOOSE i \in hits :
                                                  \A j \in hits : i <= j
                                 IN outcome = Return(PyTuple(
                                        <<GetItem(listed[first],
                                                  "accountName"),
                                          GetItem(listed[first], "slug")>>))

BuildNumberPath(a) ==
    "/api/projects/" \o Str(a.account_name) \o "/" \o Str(a.project_slug)
        \o "/settings/build-number"

\* C20: Projects.update, Projects.update_settings and
\* Projects.update_build_number send PUT requests to pairwise distinct
\* paths, and only update_build_number targets
\* /api/projects/{account}/{slug}/settings/build-number.
C20_UpdatePathsDistinct ==
    /\ (InCall("Projects.update") \/ InCall("Projects.update_settings")) =>
           /\ inflight.verb = "PUT"
           /\ inflight.url # _endpoint \o BuildNumberPath(call.args)
           /\ \A doc \in Documents :
                  Projects_update(call.args.account_name,
                                  call.args.project_slug, doc).method_url
                  # Projects_update_settings(call.args.account_name,
                                             call.args.project_slug,
                                             doc).method_url
    /\ InCall("Projects.update_build_number") =>
           /\ inflight.verb = "PUT"
           /\ inflight.url = _endpoint \o BuildNumberPath(call.args)

\* C19: _request('VERB path', body, json) sends one request with exactly
\* the verb of the descriptor to exactly its path under the endpoint and
\* yields the interpretation of the response; POST and PUT transmit the
\* given body and json, GET and DELETE transmit neither, even when given.
C19_RequestFollowsDescriptor ==
    InCall("_request")
        => LET a == call.args
               verb == a.method_url[1]
               path == Join(SubSeq(a.method_url, 3, Len(a.method_url)))
           IN /\ requests_sent = call.sent_before + 1
              /\ inflight.verb = verb
              /\ inflight.url = _endpoint \o path
              /\ verb \in {"POST", "PUT"} =>
                     inflight.data = a.body /\ inflight.json = a.json
              /\ verb \in {"GET", "DELETE"} =>
                     inflight.data = PyNone /\ inflight.json = PyNone
              /\ pc = "returned" =>
                     outcome = _parse_response_contents(response)

C19_Witness ==
    /\ InCall("_request")
    /\ call.args.method_url = <<"DELETE", " ", "/api/roles/", "7">>
    /\ Truthy(call.args.body)
    /\ Truthy(call.args.json)
    /\ inflight.verb = "DELETE"
    /\ inflight.url = "http://localhost:8080/api/roles/7"
    /\ inflight.data = PyNone
    /\ pc = "returned"
    /\ outcome = Return(PyList(<<PyInt(1)>>))

====
